---------------------------- MODULE Spec2Model ----------------------------
(***************************************************************************)
(* Model of the book-search client: the class BookSearchApiClient          *)
(* (src/src/BookSearchApiClient.js) and the standalone function            *)
(* fetchBooksByAuthor (src/src/BookSearchApiClientFunctional.js).          *)
(*                                                                         *)
(* JavaScript values are records [t, s, nan, m, e]: t is the typeof tag, s *)
(* the characters of a string, and a number is m / 10^e (nan for NaN).     *)
(* Strings are sequences of characters, so that Number and parseFloat are  *)
(* computed from the text and textContent is a concatenation.              *)
(***************************************************************************)
EXTENDS Integers, Sequences, FiniteSets, TLC

VARIABLES
    this,       \* the BookSearchApiClient instance: baseURL, format, parsers
    ctor,       \* the arguments the instance was constructed with
    calls,      \* the invocations of getBooksByAuthor / fetchBooksByAuthor
    arg,        \* pure-function runs: the argument
    variant,    \* pure-function runs: which file's function is applied
    ret         \* pure-function runs: the results of successive applications

vars == <<this, ctor, calls, arg, variant, ret>>

(***************************************************************************)
(* Bounds of the model.                                                    *)
(***************************************************************************)
MaxCalls == 2       \* invocations in flight together
MaxLen == 2         \* records in a JSON array
MaxNodes == 3       \* elements in an XML document

(***************************************************************************)
(* JavaScript values.                                                      *)
(***************************************************************************)
Undefined == [t |-> "undefined", s |-> <<>>, nan |-> FALSE, m |-> 0, e |-> 0]
NaN == [t |-> "number", s |-> <<>>, nan |-> TRUE, m |-> 0, e |-> 0]
Str(cs) == [t |-> "string", s |-> cs, nan |-> FALSE, m |-> 0, e |-> 0]

RECURSIVE Normalised(_, _)
\* m / 10^e with the trailing zeros of the fraction removed
Normalised(m, e) ==
    IF e > 0 /\ m % 10 = 0 THEN Normalised(m \div 10, e - 1) ELSE <<m, e>>

Num(m, e) ==
    LET n == Normalised(m, e)
    IN  [t |-> "number", s |-> <<>>, nan |-> FALSE, m |-> n[1], e |-> n[2]]

Digits == <<"0", "1", "2", "3", "4", "5", "6", "7", "8", "9">>
IsDigit(c) == \E d \in 1..10 : Digits[d] = c
DigitVal(c) == (CHOOSE d \in 1..10 : Digits[d] = c) - 1

RECURSIVE LeadDigits(_)
\* how many digits the text starts with
LeadDigits(cs) ==
    IF cs # <<>> /\ IsDigit(Head(cs)) THEN 1 + LeadDigits(Tail(cs)) ELSE 0

RECURSIVE DigitsVal(_, _)
\* the value of a run of digits, continuing from acc
DigitsVal(cs, acc) ==
    IF cs = <<>> THEN acc ELSE DigitsVal(Tail(cs), 10 * acc + DigitVal(Head(cs)))

RECURSIVE Pow10(_)
Pow10(k) == IF k = 0 THEN 1 ELSE 10 * Pow10(k - 1)

\* The longest prefix of cs that is a decimal literal (digits, digits with a
\* fraction, or a fraction alone): [len, m, e], len = 0 when there is none.
\* Signs, exponents, Infinity, radix prefixes and white space are outside the
\* alphabet of the texts of this model.
DecimalPrefix(cs) ==
    LET i == LeadDigits(cs)
        rest == SubSeq(cs, i + 1, Len(cs))
        dot == rest # <<>> /\ Head(rest) = "."
        j == IF dot THEN LeadDigits(Tail(rest)) ELSE 0
        ip == DigitsVal(SubSeq(cs, 1, i), 0)
        fp == DigitsVal(SubSeq(cs, i + 2, i + 1 + j), 0)
    IN  IF i = 0 /\ j = 0 THEN [len |-> 0, m |-> 0, e |-> 0]
        ELSE IF dot THEN [len |-> i + 1 + j, m |-> ip * Pow10(j) + fp, e |-> j]
        ELSE [len |-> i, m |-> ip, e |-> 0]

\* Number(v): undefined is NaN; the empty string is 0; a string that is a
\* decimal literal as a whole is its value; any other string is NaN.
Number(v) ==
    IF v.t = "number" THEN v
    ELSE IF v.t # "string" THEN NaN
    ELSE IF v.s = <<>> THEN Num(0, 0)
    ELSE LET p == DecimalPrefix(v.s)
         IN  IF p.len = Len(v.s) THEN Num(p.m, p.e) ELSE NaN

\* parseFloat(v): the argument is converted to a string ("undefined" for
\* undefined) and its longest decimal-literal prefix is the value; NaN when
\* there is none.
parseFloat(v) ==
    IF v.t = "number" THEN v
    ELSE IF v.t # "string" THEN NaN
    ELSE LET p == DecimalPrefix(v.s)
         IN  IF p.len = 0 THEN NaN ELSE Num(p.m, p.e)

(***************************************************************************)
(* Objects are functions from property names to values; reading a property *)
(* an object does not have gives undefined.                                *)
(***************************************************************************)
Fields == <<"title", "author", "isbn", "quantity", "price">>
FieldSet == {Fields[k] : k \in 1..Len(Fields)}

Get(item, k) == IF k \in DOMAIN item THEN item[k] ELSE Undefined

(***************************************************************************)
(* normaliseData: the two files hold the same function.                    *)
(***************************************************************************)
\* a slip of the pen: quantity and price read from each other's property
normaliseDataSwapped(data) ==
    [i \in 1..Len(data) |->
        [title |-> Get(data[i], "title"),
         author |-> Get(data[i], "author"),
         isbn |-> Get(data[i], "isbn"),
         quantity |-> Get(data[i], "price"),
         price |-> Get(data[i], "quantity")]]

normaliseData(data) ==
    [i \in 1..Len(data) |->
        [title |-> Get(data[i], "title"),
         author |-> Get(data[i], "author"),
         isbn |-> Get(data[i], "isbn"),
         quantity |-> Get(data[i], "quantity"),
         price |-> Get(data[i], "price")]]

normaliseDataFn(data) ==
    [i \in 1..Len(data) |->
        [title |-> Get(data[i], "title"),
         author |-> Get(data[i], "author"),
         isbn |-> Get(data[i], "isbn"),
         quantity |-> Get(data[i], "quantity"),
         price |-> Get(data[i], "price")]]

(***************************************************************************)
(* XML documents, as DOMParser hands them over: the elements in document   *)
(* order, each with its tag, its parent (0 for the root element) and the   *)
(* text it holds itself.                                                   *)
(***************************************************************************)
Node(tag, parent, text) == [tag |-> tag, parent |-> parent, text |-> text]

RECURSIVE IsDescendant(_, _, _)
\* element i lies below element b; every element lies below the document, 0
IsDescendant(doc, i, b) ==
    IF b = 0 THEN TRUE
    ELSE IF doc[i].parent = 0 THEN FALSE
    ELSE doc[i].parent = b \/ IsDescendant(doc, doc[i].parent, b)

RECURSIVE Select(_, _, _, _)
\* the elements from i on that lie below b and are named name
Select(doc, b, name, i) ==
    IF i > Len(doc) THEN <<>>
    ELSE IF doc[i].tag = name /\ IsDescendant(doc, i, b)
         THEN <<i>> \o Select(doc, b, name, i + 1)
         ELSE Select(doc, b, name, i + 1)

\* only the child elements of b are searched
getElementsByTagNameChildren(doc, b, name) ==
    LET RECURSIVE Kids(_)
        Kids(i) == IF i > Len(doc) THEN <<>>
                   ELSE IF doc[i].tag = name /\ doc[i].parent = b
                        THEN <<i>> \o Kids(i + 1)
                        ELSE Kids(i + 1)
    IN  Kids(1)

\* getElementsByTagName on the document (b = 0) or on element b: every
\* descendant element with that name, in document order
getElementsByTagName(doc, b, name) == Select(doc, b, name, 1)

RECURSIVE TextFrom(_, _, _)
TextFrom(doc, b, i) ==
    IF i > Len(doc) THEN <<>>
    ELSE IF i = b \/ IsDescendant(doc, i, b)
         THEN doc[i].text \o TextFrom(doc, b, i + 1)
         ELSE TextFrom(doc, b, i + 1)

\* textContent: the text of the element and of everything below it
textContent(doc, b) == TextFrom(doc, b, 1)

\* bookNode.getElementsByTagName(name)[0]?.textContent
FirstText(doc, b, name) ==
    LET found == getElementsByTagName(doc, b, name)
    IN  IF found = <<>> THEN Undefined ELSE Str(textContent(doc, found[1]))

\* BookSearchApiClient.parseXML, from the parsed document on
parseXML(doc) ==
    LET books == getElementsByTagName(doc, 0, "book")
    IN  [k \in 1..Len(books) |->
            [title |-> FirstText(doc, books[k], "title"),
             author |-> FirstText(doc, books[k], "author"),
             isbn |-> FirstText(doc, books[k], "isbn"),
             quantity |-> FirstText(doc, books[k], "quantity"),
             price |-> FirstText(doc, books[k], "price")]]

\* parseXML of the functional file, from the parsed document on
parseXMLFn(doc) ==
    LET books == getElementsByTagName(doc, 0, "book")
    IN  [k \in 1..Len(books) |->
            [title |-> FirstText(doc, books[k], "title"),
             author |-> FirstText(doc, books[k], "author"),
             isbn |-> FirstText(doc, books[k], "isbn"),
             quantity |-> Number(FirstText(doc, books[k], "quantity")),
             price |-> parseFloat(FirstText(doc, books[k], "price"))]]

(***************************************************************************)
(* Inputs of the pure-function runs.                                       *)
(***************************************************************************)
Tags == {"catalog", "book", "title", "author", "isbn", "quantity", "price"}
NodeTexts == {<<"1">>, <<"a">>}

RECURSIVE Ancestors(_, _)
\* element i and the elements above it
Ancestors(doc, i) == IF i = 0 THEN {} ELSE {i} \cup Ancestors(doc, doc[i].parent)

Keys == FieldSet \cup {"publisher"}

SampleValue(k) ==
    CASE k = "title" -> Str(<<"Hamlet">>)
      [] k = "author" -> Str(<<"Shakespeare">>)
      [] k = "isbn" -> Str(<<"1", "1", "1">>)
      [] k = "quantity" -> Num(3, 0)
      [] k = "price" -> Num(999, 2)
      [] OTHER -> Str(<<"Folio">>)

Object(ks) == [k \in ks |-> SampleValue(k)]

\* book-shaped objects: the empty object, and every object with at most two
\* of the six properties missing
Items == {Object(ks) : ks \in {S \in SUBSET Keys : S = {} \/ Cardinality(S) >= 4}}

Arrays == UNION {[1..n -> Items] : n \in 0..MaxLen}

NoThis == [baseURL |-> "", format |-> "", parsers |-> {}]

(***************************************************************************)
(* normaliseData applied to an array, and again to its own result.         *)
(***************************************************************************)
InitNorm ==
    /\ arg \in Arrays
    /\ variant = "none"
    /\ ret = <<>>
    /\ this = NoThis /\ ctor = NoThis /\ calls = <<>>

Latest == IF ret = <<>> THEN arg ELSE ret[Len(ret)]

ApplyNormaliseData ==
    /\ variant \in {"none", "class"}
    /\ Len(ret) < 2
    /\ variant' = "class"
    /\ ret' = Append(ret, normaliseData(Latest))
    /\ UNCHANGED <<this, ctor, calls, arg>>

ApplyNormaliseDataFn ==
    /\ variant \in {"none", "functional"}
    /\ Len(ret) < 2
    /\ variant' = "functional"
    /\ ret' = Append(ret, normaliseDataFn(Latest))
    /\ UNCHANGED <<this, ctor, calls, arg>>

NextNorm == ApplyNormaliseData \/ ApplyNormaliseDataFn

SpecNorm == InitNorm /\ [][NextNorm]_vars

(***************************************************************************)
(* parseXML applied to a parsed document.                                  *)
(***************************************************************************)
InitXML ==
    /\ arg \in {<<Node(t, 0, x)>> : t \in Tags, x \in NodeTexts}
    /\ variant = "none"
    /\ ret = <<>>
    /\ this = NoThis /\ ctor = NoThis /\ calls = <<>>

\* the document grows by one element, in document order: a child of the
\* element before it or of one of that element's ancestors
AppendElement ==
    /\ variant = "none"
    /\ Len(arg) < MaxNodes
    /\ \E t \in Tags, x \in NodeTexts, p \in Ancestors(arg, Len(arg)) :
          arg' = Append(arg, Node(t, p, x))
    /\ UNCHANGED <<this, ctor, calls, variant, ret>>

ApplyParseXML ==
    /\ variant = "none"
    /\ variant' = "class"
    /\ ret' = <<parseXML(arg)>>
    /\ UNCHANGED <<this, ctor, calls, arg>>

ApplyParseXMLFn ==
    /\ variant = "none"
    /\ variant' = "functional"
    /\ ret' = <<parseXMLFn(arg)>>
    /\ UNCHANGED <<this, ctor, calls, arg>>

NextXML == AppendElement \/ ApplyParseXML \/ ApplyParseXMLFn

SpecXML == InitXML /\ [][NextXML]_vars

(***************************************************************************)
(* C8: normaliseData is idempotent. Applied to an array of book-shaped     *)
(* records it gives one record per input record, in the input's order,     *)
(* each with exactly the five canonical properties holding the input's     *)
(* values; applied again to its own result it gives that result back.      *)
(***************************************************************************)
C8_Idempotent ==
    /\ Len(ret) >= 1 =>
          /\ Len(ret[1]) = Len(arg)
          /\ \A i \in 1..Len(arg) :
                /\ DOMAIN ret[1][i] = FieldSet
                /\ \A k \in FieldSet : ret[1][i][k] = Get(arg[i], k)
    /\ Len(ret) = 2 => ret[2] = ret[1]

\* an array of two different records, one lacking price and carrying an
\* extra property, has been normalised twice
C8_Witness ==
    /\ Len(ret) = 2
    /\ Len(arg) = 2
    /\ arg[1] # arg[2]
    /\ \E i \in 1..2 : "price" \notin DOMAIN arg[i] /\ "publisher" \in DOMAIN arg[i]
    /\ ret[2][1].quantity # ret[2][1].price

(***************************************************************************)
(* C10: parseXML gives one record per element named book, at any depth and *)
(* in document order, and each field of a record is the text of the first  *)
(* element with that name found anywhere below that book, in document      *)
(* order (undefined when there is none); the functional file's parseXML    *)
(* then passes quantity through Number and price through parseFloat.       *)
(***************************************************************************)
BookElements == {i \in 1..Len(arg) : arg[i].tag = "book"}

\* the k-th element named book in document order
KthBook(k) ==
    CHOOSE b \in BookElements : Cardinality({c \in BookElements : c < b}) = k - 1

Least(S) == CHOOSE j \in S : \A l \in S : j <= l

TextOfFirst(S) == IF S = {} THEN Undefined ELSE Str(textContent(arg, Least(S)))

Coerced(f, raw) ==
    IF variant = "functional" /\ f = "quantity" THEN Number(raw)
    ELSE IF variant = "functional" /\ f = "price" THEN parseFloat(raw)
    ELSE raw

Below(b, f) ==
    {j \in 1..Len(arg) : arg[j].tag = f /\ b \in Ancestors(arg, arg[j].parent)}

ChildrenOf(b, f) == {j \in 1..Len(arg) : arg[j].tag = f /\ arg[j].parent = b}

C10_FirstDescendant ==
    Len(ret) = 1 =>
        /\ Len(ret[1]) = Cardinality(BookElements)
        /\ \A k \in 1..Len(ret[1]) : \A f \in FieldSet :
              ret[1][k][f] = Coerced(f, TextOfFirst(Below(KthBook(k), f)))

\* C10 as stated: each field is taken from the first child element of the
\* book with that name, and is undefined when the book has no such child
C10_FirstChild ==
    Len(ret) = 1 =>
        /\ Len(ret[1]) = Cardinality(BookElements)
        /\ \A k \in 1..Len(ret[1]) : \A f \in FieldSet :
              ret[1][k][f] = Coerced(f, TextOfFirst(ChildrenOf(KthBook(k), f)))

\* parseXML has run on a document with a book inside a book whose only
\* title lies deeper than a child of the outer book
C10_Witness ==
    /\ Len(ret) = 1
    /\ Len(ret[1]) = 2
    /\ ChildrenOf(KthBook(1), "title") = {}
    /\ Below(KthBook(1), "title") # {}
    /\ ret[1][1].title # Undefined

(***************************************************************************)
(* The endpoint, the errors and the promises of a call.                    *)
(***************************************************************************)
Omitted == "<omitted>"
DefaultFormat == "json"
DefaultLimit == 10

Err(name, message, status, detail) ==
    [name |-> name, message |-> message, status |-> status, detail |-> detail]

NoError == Err("", "", 0, "")
FetchFailed == Err("TypeError", "Failed to fetch", 0, "")
BodyFailed == Err("TypeError", "Failed to read the body", 0, "")
RequestFailed(status) == Err("Error", "Request failed with status", status, "")
UnsupportedFormat(format) == Err("Error", "Unsupported format:", 0, format)
JSONParsingError == Err("Error", "JSON Parsing Error:", 0, "SyntaxError")
XMLParsingError == Err("Error", "XML Parsing Error:", 0, "")
NotAFunction == Err("TypeError", "data.map is not a function", 0, "")
NotDefined(ref) == Err("ReferenceError", "is not defined", 0, ref)

\* A response body: a JSON array of objects, another well-formed JSON value,
\* an XML document, or text that is neither JSON nor XML.
Body(kind, items, doc) == [kind |-> kind, items |-> items, doc |-> doc]
NoBody == Body("none", <<>>, <<>>)
JsonArray(items) == Body("json-array", items, <<>>)
JsonObject == Body("json-object", <<>>, <<>>)
Xml(doc) == Body("xml", <<>>, doc)
Garbage == Body("garbage", <<>>, <<>>)

\* What the endpoint does with a request: fetch rejects or gives a response
\* with a status; reading the body rejects or gives the text; dom says what
\* the platform's DOMParser does with text that is not XML.
Endpoint(fetch, status, text, body, dom) ==
    [fetch |-> fetch, status |-> status, text |-> text, body |-> body, dom |-> dom]

Data(array, items) == [array |-> array, items |-> items]
Fulfilled(data) == [state |-> "fulfilled", data |-> data, error |-> NoError]
Rejected(error) == [state |-> "rejected", data |-> Data(FALSE, <<>>), error |-> error]
NotAwaited == [state |-> "none", data |-> Data(FALSE, <<>>), error |-> NoError]

Ok(status) == 200 <= status /\ status <= 299

\* the template literal of the request
Url(baseURL, authorName, limit, format) ==
    <<baseURL, "/by-author?q=", authorName, "&limit=", limit, "&format=", format>>
NoRequest == <<>>

(***************************************************************************)
(* The parsers, from the response text on.                                 *)
(***************************************************************************)
\* both files: JSON.parse in a try, a failure rethrown as a new Error
parseJSON(rawData) ==
    IF rawData.kind = "json-array" THEN Fulfilled(Data(TRUE, rawData.items))
    ELSE IF rawData.kind = "json-object" THEN Fulfilled(Data(FALSE, <<>>))
    ELSE Rejected(JSONParsingError)

\* the document DOMParser gives for text that is not XML
ErrorDocument == <<Node("parsererror", 0, <<"e", "r", "r", "o", "r">>)>>

\* new DOMParser().parseFromString(text, 'application/xml'): text that is
\* not XML gives an error document, or throws on a strict implementation
parseFromString(rawData, dom) ==
    IF rawData.kind = "xml" THEN [threw |-> FALSE, doc |-> rawData.doc]
    ELSE IF dom = "strict" THEN [threw |-> TRUE, doc |-> <<>>]
    ELSE [threw |-> FALSE, doc |-> ErrorDocument]

\* BookSearchApiClient.parseXML as the async function it is
parseXMLAsync(rawData, dom) ==
    LET xml == parseFromString(rawData, dom)
    IN  IF xml.threw THEN Rejected(XMLParsingError)
        ELSE Fulfilled(Data(TRUE, parseXML(xml.doc)))

\* parseXML of the functional file as the async function it is
parseXMLAsyncFn(rawData, dom) ==
    LET xml == parseFromString(rawData, dom)
    IN  IF xml.threw THEN Rejected(XMLParsingError)
        ELSE Fulfilled(Data(TRUE, parseXMLFn(xml.doc)))

(***************************************************************************)
(* The parser registries.                                                  *)
(***************************************************************************)
\* this.parsers of the class: csv is commented out
ClassParsers == [json |-> "parseJSON", xml |-> "parseXML"]

Constructor(baseURL, format) ==
    [baseURL |-> baseURL,
     format |-> IF format = Omitted THEN DefaultFormat ELSE format,
     parsers |-> ClassParsers]

\* the object literal of fetchBooksByAuthor, evaluated on every call
RegistryFn ==
    <<[key |-> "json", ref |-> "parseJSON"],
      [key |-> "xml", ref |-> "parseXML"],
      [key |-> "csv", ref |-> "parseCSV"]>>

\* the bindings the functional file declares: parseCSV is commented out
DeclaredFn == {"fetchBooksByAuthor", "parseJSON", "parseXML", "normaliseData"}

\* the references of the literal that name no binding, in evaluation order
Unbound(registry) ==
    SelectSeq(registry, LAMBDA entry : entry.ref \notin DeclaredFn)

ParsersFn ==
    [k \in {RegistryFn[n].key : n \in 1..Len(RegistryFn)} |->
        RegistryFn[CHOOSE n \in 1..Len(RegistryFn) : RegistryFn[n].key = k].ref]

\* parsers[format], undefined ("") for a key the registry does not have
Lookup(parsers, format) ==
    IF format \in DOMAIN parsers THEN parsers[format] ELSE ""

(***************************************************************************)
(* One invocation. pc is the await it is suspended at ("fetch", "text",    *)
(* "parse"), "idle" before it is made and "done" once its promise has      *)
(* settled. awaited is the promise of the parser; logged is what it wrote  *)
(* with console.error; trace is the stages it went through.                *)
(***************************************************************************)
NoConfig == [baseURL |-> "", format |-> ""]
NoEndpoint == Endpoint("none", 0, "none", NoBody, "none")
Pending == [state |-> "pending", value |-> <<>>, error |-> NoError]

Idle ==
    [pc |-> "idle", variant |-> "none", authorName |-> "", limit |-> 0,
     config |-> NoConfig, env |-> NoEndpoint, request |-> NoRequest,
     awaited |-> NotAwaited, outcome |-> Pending, logged |-> <<>>, trace |-> <<>>]

\* return of the async function: its promise resolves
Return(c, value) ==
    [c EXCEPT !.pc = "done",
              !.outcome = [state |-> "resolved", value |-> value, error |-> NoError]]

\* a throw outside the try: the promise rejects, nothing is logged
Throw(c, error) ==
    [c EXCEPT !.pc = "done",
              !.outcome = [state |-> "rejected", value |-> <<>>, error |-> error]]

\* a throw inside the try: console.error, then the same error is rethrown
Catch(c, error) == Throw([c EXCEPT !.logged = Append(@, error)], error)

\* the call of fetch with the composed URL, and the first await
Fetch(c, baseURL, format) ==
    [c EXCEPT !.pc = "fetch",
              !.request = Url(baseURL, c.authorName, c.limit, format),
              !.trace = Append(@, "fetch")]

\* getBooksByAuthor up to its first await
getBooksByAuthor(self, c) == Fetch(c, self.baseURL, self.format)

\* fetchBooksByAuthor up to its first await: the registry literal comes
\* first, outside the try
fetchBooksByAuthor(c) ==
    LET unbound == Unbound(RegistryFn)
    IN  IF unbound # <<>> THEN Throw(c, NotDefined(unbound[1].ref))
        ELSE Fetch(c, c.config.baseURL, c.config.format)

\* from the settling of fetch to the await of response.text()
AfterFetch(c) ==
    IF c.env.fetch = "rejects" THEN Catch(c, FetchFailed)
    ELSE IF ~Ok(c.env.status) THEN Catch(c, RequestFailed(c.env.status))
    ELSE [c EXCEPT !.pc = "text", !.trace = Append(@, "text")]

\* the parser's call: an async function without an await of its own runs to
\* its end there and then, and hands back a settled promise
CallParser(c, parser) ==
    IF parser = "parseJSON" THEN parseJSON(c.env.body)
    ELSE IF c.variant = "class" THEN parseXMLAsync(c.env.body, c.env.dom)
    ELSE parseXMLAsyncFn(c.env.body, c.env.dom)

\* from the settling of response.text() to the await of the parser
AfterText(self, c) ==
    LET format == IF c.variant = "class" THEN self.format ELSE c.config.format
        parsers == IF c.variant = "class" THEN self.parsers ELSE ParsersFn
        parser == Lookup(parsers, format)
        looked == [c EXCEPT !.trace = Append(@, "lookup")]
    IN  IF c.env.text = "rejects" THEN Catch(c, BodyFailed)
        ELSE IF parser = "" THEN Catch(looked, UnsupportedFormat(format))
        ELSE [looked EXCEPT !.pc = "parse",
                            !.awaited = CallParser(c, parser),
                            !.trace = Append(@, "parse")]

\* from the settling of the parser to the end: normaliseData and return
AfterParse(c) ==
    LET data == c.awaited.data
        normalising == [c EXCEPT !.trace = Append(@, "normalise")]
    IN  IF c.awaited.state = "rejected" THEN Catch(c, c.awaited.error)
        ELSE IF ~data.array THEN Catch(normalising, NotAFunction)
        ELSE IF c.variant = "class"
             THEN Return(normalising, normaliseData(data.items))
             ELSE Return(normalising, normaliseDataFn(data.items))

\* the parser's promise is kept in one place for every call in flight
FrameShared(cs, i, c) ==
    [j \in DOMAIN cs |->
        IF j = i THEN c
        ELSE IF cs[j].pc = "parse" /\ c.pc = "parse"
             THEN [cs[j] EXCEPT !.awaited = c.awaited]
             ELSE cs[j]]

\* the bindings of an invocation (response, rawData, parser, data) are its own
Frame(cs, i, c) == [cs EXCEPT ![i] = c]

(***************************************************************************)
(* Inputs of the calls.                                                    *)
(***************************************************************************)
Formats == {"json", "xml", "csv"}
BaseURLs == {"http://api.example.com"}
Authors == {"Shakespeare"}
Statuses == {200, 404, 500}
\* the limit argument: given, or left to its default
LimitArgs == {[given |-> TRUE, value |-> 5], [given |-> FALSE, value |-> 0]}

SampleItems ==
    {Object(Keys), Object(Keys \ {"price"}), Object({"title", "quantity"})}

SampleDocs ==
    {<<Node("catalog", 0, <<>>),
       Node("book", 1, <<>>),
       Node("quantity", 2, <<"3">>),
       Node("price", 2, <<"9", ".", "5">>)>>,
     <<Node("book", 0, <<>>),
       Node("title", 1, <<"H", "a", "m", "l", "e", "t">>),
       Node("quantity", 1, <<"m", "a", "n", "y">>)>>,
     <<Node("catalog", 0, <<>>)>>}

Bodies ==
    {JsonArray(a) : a \in UNION {[1..n -> SampleItems] : n \in 0..MaxLen}}
        \cup {Xml(d) : d \in SampleDocs} \cup {JsonObject, Garbage}

Endpoints ==
    {Endpoint("rejects", 0, "none", NoBody, "none")}
        \cup {Endpoint("responds", st, "rejects", NoBody, "none") : st \in Statuses}
        \cup {Endpoint("responds", st, "resolves", b, dom) :
                st \in Statuses, b \in Bodies, dom \in {"lenient", "strict"}}

\* the endpoints of the runs with several calls in flight
FewEndpoints ==
    {Endpoint("rejects", 0, "none", NoBody, "none"),
     Endpoint("responds", 500, "resolves", Garbage, "lenient"),
     Endpoint("responds", 200, "resolves", Garbage, "lenient"),
     Endpoint("responds", 200, "resolves", JsonArray(<<Object(Keys)>>), "lenient"),
     Endpoint("responds", 200, "resolves", Xml(<<Node("book", 0, <<>>)>>), "lenient")}

(***************************************************************************)
(* The actions: a call is made, and each of its awaits settles.            *)
(***************************************************************************)
Arguments(c, v, authorName, limit, config, env) ==
    [c EXCEPT !.variant = v, !.authorName = authorName,
              !.limit = IF limit.given THEN limit.value ELSE DefaultLimit,
              !.config = config, !.env = env]

CallGetBooksByAuthor(i, envs, limits) ==
    /\ calls[i].pc = "idle"
    /\ \E authorName \in Authors, limit \in limits, env \in envs :
          calls' = Frame(calls, i,
                      getBooksByAuthor(this,
                          Arguments(calls[i], "class", authorName, limit, NoConfig, env)))
    /\ UNCHANGED <<this, ctor, arg, variant, ret>>

CallFetchBooksByAuthor(i, envs, limits) ==
    /\ calls[i].pc = "idle"
    /\ \E authorName \in Authors, limit \in limits, env \in envs,
          baseURL \in BaseURLs, format \in Formats \cup {Omitted} :
          calls' = Frame(calls, i,
                      fetchBooksByAuthor(
                          Arguments(calls[i], "functional", authorName, limit,
                              [baseURL |-> baseURL,
                               format |-> IF format = Omitted THEN DefaultFormat
                                          ELSE format],
                              env)))
    /\ UNCHANGED <<this, ctor, arg, variant, ret>>

FetchSettles(i) ==
    /\ calls[i].pc = "fetch"
    /\ calls' = Frame(calls, i, AfterFetch(calls[i]))
    /\ UNCHANGED <<this, ctor, arg, variant, ret>>

TextSettles(i) ==
    /\ calls[i].pc = "text"
    /\ calls' = Frame(calls, i, AfterText(this, calls[i]))
    /\ UNCHANGED <<this, ctor, arg, variant, ret>>

ParserSettles(i) ==
    /\ calls[i].pc = "parse"
    /\ calls' = Frame(calls, i, AfterParse(calls[i]))
    /\ UNCHANGED <<this, ctor, arg, variant, ret>>

InitClient ==
    /\ ctor \in [baseURL : BaseURLs, format : Formats \cup {Omitted}]
    /\ this = Constructor(ctor.baseURL, ctor.format)
    /\ arg = <<>> /\ variant = "none" /\ ret = <<>>

\* one call at a time, on every endpoint
Init == InitClient /\ calls = [i \in 1..1 |-> Idle]

ClassCall == \E i \in DOMAIN calls : CallGetBooksByAuthor(i, Endpoints, LimitArgs)
FunctionalCall == \E i \in DOMAIN calls : CallFetchBooksByAuthor(i, Endpoints, LimitArgs)
FetchSettled == \E i \in DOMAIN calls : FetchSettles(i)
TextSettled == \E i \in DOMAIN calls : TextSettles(i)
ParserSettled == \E i \in DOMAIN calls : ParserSettles(i)

Next ==
    \/ ClassCall
    \/ FunctionalCall
    \/ FetchSettled
    \/ TextSettled
    \/ ParserSettled

Spec == Init /\ [][Next]_vars

\* several calls in flight together
InitConc == InitClient /\ calls = [i \in 1..MaxCalls |-> Idle]

DefaultLimitOnly == {[given |-> FALSE, value |-> 0]}
ClassCallConc ==
    \E i \in DOMAIN calls : CallGetBooksByAuthor(i, FewEndpoints, DefaultLimitOnly)
FunctionalCallConc ==
    \E i \in DOMAIN calls : CallFetchBooksByAuthor(i, FewEndpoints, DefaultLimitOnly)

NextConc ==
    \/ ClassCallConc
    \/ FunctionalCallConc
    \/ FetchSettled
    \/ TextSettled
    \/ ParserSettled

SpecConc == InitConc /\ [][NextConc]_vars

(***************************************************************************)
(* The claims about the calls.                                             *)
(***************************************************************************)
Made == {i \in DOMAIN calls : calls[i].pc # "idle"}
Settled == {i \in DOMAIN calls : calls[i].pc = "done"}

\* the format a call asks for: the instance's, or its own config's
FormatOf(c) == IF c.variant = "class" THEN this.format ELSE c.config.format

\* the endpoint answers the call's request with a successful status and a body
AnswersWith(c, kinds) ==
    /\ c.env.fetch = "responds"
    /\ Ok(c.env.status)
    /\ c.env.text = "resolves"
    /\ c.env.body.kind \in kinds

RejectedWith(c, error) ==
    c.outcome.state = "rejected" /\ c.outcome.error = error

\* C1: with format json and a successful response whose body is a JSON array
\* of book-shaped objects, either entry point resolves with one record per
\* object, in order, each with exactly the five canonical properties holding
\* the object's own values (undefined for one it lacks).
C1_JsonResolves ==
    \A i \in Settled :
        LET c == calls[i]
            items == c.env.body.items
        IN  FormatOf(c) = "json" /\ AnswersWith(c, {"json-array"}) =>
                /\ c.outcome.state = "resolved"
                /\ Len(c.outcome.value) = Len(items)
                /\ \A k \in 1..Len(items) :
                      /\ DOMAIN c.outcome.value[k] = FieldSet
                      /\ \A f \in FieldSet : c.outcome.value[k][f] = Get(items[k], f)

\* C2: with format csv either entry point rejects with the error
\* 'Unsupported format: csv', whatever the endpoint does.
C2_CsvUnsupported ==
    \A i \in Settled :
        FormatOf(calls[i]) = "csv" => RejectedWith(calls[i], UnsupportedFormat("csv"))

\* C3: a call of getBooksByAuthor and a call of fetchBooksByAuthor with the
\* instance's baseURL and format, the same author and limit and the same
\* endpoint issue the same request and end in the same outcome.
C3_Equivalent ==
    \A i \in Settled, j \in Settled :
        LET c == calls[i]
            d == calls[j]
        IN  /\ c.variant = "class" /\ d.variant = "functional"
            /\ d.config = [baseURL |-> this.baseURL, format |-> this.format]
            /\ d.authorName = c.authorName /\ d.limit = c.limit /\ d.env = c.env
            => d.request = c.request /\ d.outcome = c.outcome

\* C4: when the response has a failure status the call rejects with the
\* error 'Request failed with status <status>', and it has looked up no
\* parser, called no parser and normalised nothing.
C4_StatusRejects ==
    \A i \in Settled :
        LET c == calls[i]
        IN  c.env.fetch = "responds" /\ ~Ok(c.env.status) =>
                /\ RejectedWith(c, RequestFailed(c.env.status))
                /\ \A n \in 1..Len(c.trace) :
                      c.trace[n] \notin {"lookup", "parse", "normalise"}

\* C5: with format json and a successful response whose body is not JSON,
\* either entry point rejects with the 'JSON Parsing Error' error.
C5_BadJsonRejects ==
    \A i \in Settled :
        LET c == calls[i]
        IN  FormatOf(c) = "json" /\ AnswersWith(c, {"xml", "garbage"}) =>
                RejectedWith(c, JSONParsingError)

\* C6: with format xml, in every record a call resolves with, quantity and
\* price are numbers: the numeric value of the text of the book's quantity
\* and price elements, NaN when the book has no such element or its text is
\* not numeric.
C6_XmlNumbers ==
    \A i \in Settled :
        LET c == calls[i]
            doc == c.env.body.doc
            books == getElementsByTagName(doc, 0, "book")
        IN  /\ FormatOf(c) = "xml"
            /\ AnswersWith(c, {"xml"})
            /\ c.outcome.state = "resolved"
            => /\ Len(c.outcome.value) = Len(books)
               /\ \A k \in 1..Len(books) :
                     /\ c.outcome.value[k].quantity.t = "number"
                     /\ c.outcome.value[k].price.t = "number"
                     /\ c.outcome.value[k].quantity =
                           Number(FirstText(doc, books[k], "quantity"))
                     /\ c.outcome.value[k].price =
                           parseFloat(FirstText(doc, books[k], "price"))

Went(c, stage) == \E n \in 1..Len(c.trace) : c.trace[n] = stage

\* C7: a call that rejects has logged exactly once, the error it rejects
\* with; a call that resolves has logged nothing; and a failure of fetch, a
\* failure status, a failure to read the body and a failure of the parser
\* each end the call that met it in a rejection with that failure.
C7_LoggedAndRethrown ==
    \A i \in Settled :
        LET c == calls[i]
        IN  /\ c.outcome.state = "rejected" => c.logged = <<c.outcome.error>>
            /\ c.outcome.state = "resolved" => c.logged = <<>>
            /\ Went(c, "fetch") /\ c.env.fetch = "rejects" =>
                  RejectedWith(c, FetchFailed)
            /\ Went(c, "fetch") /\ c.env.fetch = "responds" /\ ~Ok(c.env.status) =>
                  RejectedWith(c, RequestFailed(c.env.status))
            /\ Went(c, "text") /\ c.env.text = "rejects" =>
                  RejectedWith(c, BodyFailed)
            /\ Went(c, "parse") /\ c.awaited.state = "rejected" =>
                  RejectedWith(c, c.awaited.error)

\* the call as it runs alone on a freshly constructed instance: its state at
\* each await and at its end
Alone(c) ==
    LET self == Constructor(ctor.baseURL, ctor.format)
        a == Arguments(Idle, c.variant, c.authorName,
                       [given |-> TRUE, value |-> c.limit], c.config, c.env)
        s1 == IF c.variant = "class" THEN getBooksByAuthor(self, a)
              ELSE fetchBooksByAuthor(a)
        s2 == IF s1.pc = "fetch" THEN AfterFetch(s1) ELSE s1
        s3 == IF s2.pc = "text" THEN AfterText(self, s2) ELSE s2
        s4 == IF s3.pc = "parse" THEN AfterParse(s3) ELSE s3
    IN  <<s1, s2, s3, s4>>

\* C9: calls in flight together are independent. The instance stays as it
\* was constructed, and every call, at each await and at its end, is in the
\* state it would be in had it run alone with the same arguments and the
\* same endpoint.
C9_Independent ==
    /\ this = Constructor(ctor.baseURL, ctor.format)
    /\ \A i \in Made :
          /\ \E n \in 1..4 : calls[i] = Alone(calls[i])[n]
          /\ i \in Settled => calls[i] = Alone(calls[i])[4]

\* two calls are suspended at their parsers, holding different promises,
\* while they ask different things of the endpoint
C9_Witness ==
    \E i \in Made, j \in Made :
        /\ calls[i].pc = "parse" /\ calls[j].pc = "parse"
        /\ calls[i].awaited.state = "fulfilled"
        /\ calls[j].awaited.state = "rejected"

=============================================================================
